---- MODULE Spec2Model ----
(***************************************************************************)
(* Model of frd_stac/utils/cogs.py: the COG raster descriptor and the      *)
(* FRDCog catalog item builder.                                            *)
(*                                                                         *)
(* Python values are modelled as follows.                                  *)
(*   - None / a value: the sequences << >> and << v >>.                    *)
(*   - A call's outcome: a record with exc (an exception leaves the code), *)
(*     val (the value returned, when exc is FALSE), the raster path and    *)
(*     the numbers of raster handles opened and closed, and the thumbnail  *)
(*     path and whether a file was written there.                          *)
(*   - Coordinates and times are integers; a projection is a name whose    *)
(*     transform to geographic coordinates is a fixed invertible map.      *)
(*   - The uri "s3://bucket/key" is the triple << "s3", bucket, key >>;    *)
(*     a uri of another form is the one-element sequence of its text.      *)
(***************************************************************************)
EXTENDS Integers, Sequences, FiniteSets, TLC

VARIABLES
    now,          \* the wall clock read by datetime.now
    desc,         \* the caller's descriptor (<< >> when it holds None)
    call,         \* the last call: operation, arguments, what it read, exception, handles,
                  \* file written
    item,         \* the item the last call returned, when it was to_pystac_item
    dry,          \* the value the last call returned, when it was all_cells_dry
    lastRead,     \* the value the last call returned, when it was bbox_4326
    firstRead,    \* the first value bbox_4326 returned since desc was constructed or written
    openHandles   \* number of raster handles currently open

vars == << now, desc, call, item, dry, lastRead, firstRead, openHandles >>

----------------------------------------------------------------------------
(* Bounds of the model *)

MaxTime == 1
MaxCoord == 0
MaxDim == 4
MaxFactor == 5
NumPixels == 2

\* create_thumbnail(self, thumbnail_path, factor=4)
DefaultFactor == 4

Coords == 0..MaxCoord
\* native bounding boxes [minx, miny, maxx, maxy]; the spec's example box is included
BBoxes == { << x, 0, x + 1, 2 >> : x \in Coords } \cup { << 0, 0, 10, 10 >> }
\* raster sizes and thumbnail factors: the smallest and the largest, and the default factor
Dims == { 1, MaxDim }
Factors == { 0, 1, DefaultFactor, MaxFactor }
PixelValues == { 0, 1 }
Bands == [ 1..NumPixels -> PixelValues ]
NoDataVals == { << >> } \cup { << v >> : v \in PixelValues }

Buckets == { "bucket" }
Keys == { "grid.tif" }
CMaps == { "Blues" }
ItemIds == { "item-1" }
ThumbPaths == { "a.png", "b.png" }
Resolutions == { << 1, 1 >> }

ValidProjections == { "EPSG:4326", "LOCAL:shear" }
Projections == ValidProjections \cup { "INVALID" }

None == << >>
Some(v) == << v >>

----------------------------------------------------------------------------
(* Outcomes of calls *)

\* exc: an exception leaves the code; val: the value returned; path: the raster path
\* opened; opened, closed: raster handles opened and closed; thumb: the path
\* create_thumbnail was called with; wrote: a file was written at that path
Return(v) == [ exc |-> FALSE, val |-> v, path |-> None, opened |-> 0, closed |-> 0,
               thumb |-> None, wrote |-> FALSE ]
Raise == [ Return(None) EXCEPT !.exc = TRUE ]

\* try: body / except Exception: return fallback
TryExceptLeak(body, fallback) == body
TryExcept(body, fallback) ==
    IF body.exc THEN [ body EXCEPT !.exc = FALSE, !.val = fallback ] ELSE body

\* with rasterio.open(path) as dataset: body
\* the handle is closed when the block is left, by return or by exception
WithOpenLeak(path, openOk, body) ==
    IF ~openOk THEN [ Raise EXCEPT !.path = Some(path) ]
    ELSE [ body EXCEPT !.path = Some(path), !.opened = 1,
                       !.closed = IF body.exc THEN 0 ELSE 1 ]
WithOpen(path, openOk, body) ==
    IF ~openOk THEN [ Raise EXCEPT !.path = Some(path) ]
    ELSE [ body EXCEPT !.path = Some(path), !.opened = 1, !.closed = 1 ]

----------------------------------------------------------------------------
(* Coordinate transform: pyproj.Transformer.from_crs(projection, "epsg:4326", *)
(* always_xy=True).transform(x, y)                                            *)

CanTransform(projection) == projection \in ValidProjections

Transform(projection, x, y) ==
    CASE projection = "EPSG:4326"   -> << x, y >>
      [] projection = "LOCAL:shear" -> << x + y + 3, 2 * y - 2 >>

\* the transform in the opposite direction (from_crs("epsg:4326", projection))
InverseTransform(projection, x, y) ==
    CASE projection = "EPSG:4326"   -> << x, y >>
      [] projection = "LOCAL:shear" -> << x - ((y + 2) \div 2) - 3, (y + 2) \div 2 >>

----------------------------------------------------------------------------
(* class COG *)

bbox_4326_swapped(self) ==
    LET a == Transform(self.projection, self.bbox[1], self.bbox[2])
        b == Transform(self.projection, self.bbox[3], self.bbox[4])
    IN  << a[2], a[1], b[2], b[1] >>
bbox_4326(self) ==
    Transform(self.projection, self.bbox[1], self.bbox[2])
        \o Transform(self.projection, self.bbox[3], self.bbox[4])

\* reading the property d.bbox_4326: the value, and the object after the access
read_bbox_4326_storing(self) ==
    [ val |-> bbox_4326(self), self |-> [ self EXCEPT !.bbox = bbox_4326(self) ] ]
read_bbox_4326(self) == [ val |-> bbox_4326(self), self |-> self ]

\* shapely Polygon(shell): the ring is closed by repeating its first point
Polygon(shell) == [ exterior |-> shell \o << shell[1] >> ]

\* shapely.geometry.mapping: the GeoJSON-like dict of a polygon
mapping(polygon) == [ type |-> "Polygon", coordinates |-> << polygon.exterior >> ]

create_footprint_reordered(self) ==
    LET b == bbox_4326(self)
    IN  Polygon(<< << b[1], b[2] >>, << b[3], b[2] >>, << b[3], b[4] >>, << b[1], b[4] >> >>)
create_footprint(self) ==
    LET b == bbox_4326(self)
    IN  Polygon(<< << b[1], b[2] >>, << b[1], b[4] >>, << b[3], b[4] >>, << b[3], b[2] >> >>)

\* COG.__init__ / FRDCog.__init__; clock is the value datetime.now returns
COG_init(uri, bbox, temporal, resolution, projection, cmap, clock) ==
    IF ~CanTransform(projection) THEN Raise
    ELSE Return(Some([ uri |-> uri, bbox |-> bbox, temporal |-> clock,
                       resolution |-> resolution, projection |-> projection,
                       footprint_4326 |-> mapping(create_footprint(
                           [ bbox |-> bbox, projection |-> projection ])),
                       cmap |-> cmap ]))

\* helpers of frd_stac/utils/s3_utils.py; split_s3_path gives (bucket, key) for
\* "s3://bucket/key" and raises for a uri that has no such parts
split_s3_path(uri) ==
    IF Len(uri) = 3 /\ uri[1] = "s3" THEN Return(<< uri[2], uri[3] >>) ELSE Raise
get_object_datetime(remote) ==
    IF remote.lastModified = None THEN Raise ELSE Return(remote.lastModified)

\* f"/vsis3/{bucket}/{key}" and uri.replace("s3://", "/vsis3/")
vsis3(bucket, key) == << "vsis3", bucket, key >>
replace_s3(uri) == IF uri[1] = "s3" THEN << "vsis3" >> \o Tail(uri) ELSE uri

\* COG.from_s3; remote is the object at bucket/key and what reading it yields:
\*   openOk, bounds, resolution, crs (None when the raster has none),
\*   tag (None when the raster carries no TIFFTAG_DATETIME tags),
\*   lastModified (None when the storage request fails)
from_s3(bucket, key, cmap, remote, clock) ==
    LET \* lines 78-84: the value bound to the local name temporal is not used again
        read == WithOpen(vsis3(bucket, key), remote.openOk,
                    IF remote.crs = None THEN Raise        \* dataset.crs.to_string()
                    ELSE IF remote.tag = None THEN get_object_datetime(remote)
                    ELSE Return(remote.tag))
        \* lines 86-93: temporal=datetime.now(...), which __init__ replaces by its own;
        \* dataset.res is read from the dataset after the with block has closed it
        made == COG_init(<< "s3", bucket, key >>, remote.bounds, clock,
                         remote.resolution, remote.crs[1], cmap, clock)
    IN  TryExcept(
            IF read.exc THEN read
            ELSE IF made.exc THEN [ read EXCEPT !.exc = TRUE, !.val = None ]
            ELSE [ read EXCEPT !.val = made.val ],
            None)

\* numpy's == of a pixel and nodatavals[0]: no number equals None
PixelEq(p, nodata) == nodata # None /\ p = nodata[1]

\* COG.all_cells_dry; remote: openOk, readOk, band (the pixels of band 1), nodata
\* line 101, bucket, key = split_s3_path(self.uri), runs before the try statement
all_cells_dry(self, remote) ==
    LET parts == split_s3_path(self.uri)
    IN  IF parts.exc THEN Raise
        ELSE TryExcept(
                 WithOpen(vsis3(parts.val[1], parts.val[2]), remote.openOk,
                     IF ~remote.readOk THEN Raise
                     ELSE Return(Some(\A i \in DOMAIN remote.band :
                                          PixelEq(remote.band[i], remote.nodata)))),
                 None)

\* COG.create_thumbnail; remote: openOk, readOk, width, height, count,
\* reprojectOk, saveOk (plt.imsave could write the file)
create_thumbnail_body(factor, remote) ==
    IF ~remote.readOk THEN Raise
    ELSE IF factor = 0 THEN Raise                       \* width // 0
    ELSE LET new_width == remote.width \div factor
             new_height == remote.height \div factor
         IN  IF new_width = 0 \/ new_height = 0 THEN Raise   \* width / new_width
             ELSE IF ~remote.reprojectOk THEN Raise
             ELSE IF remote.count # 1 THEN Raise        \* np.squeeze(resampled, axis=0)
             ELSE IF ~remote.saveOk THEN Raise
             ELSE [ Return(None) EXCEPT !.wrote = TRUE ]

create_thumbnail_raising(self, thumbnail_path, factor, remote) ==
    [ WithOpen(replace_s3(self.uri), remote.openOk, create_thumbnail_body(factor, remote))
        EXCEPT !.thumb = Some(thumbnail_path) ]
create_thumbnail(self, thumbnail_path, factor, remote) ==
    [ TryExcept(WithOpen(replace_s3(self.uri), remote.openOk,
                         create_thumbnail_body(factor, remote)), None)
        EXCEPT !.thumb = Some(thumbnail_path) ]

----------------------------------------------------------------------------
(* class FRDCog *)

\* pystac.Item.add_asset
add_asset(it, key, asset) ==
    [ it EXCEPT !.assets = [ k \in DOMAIN it.assets \cup { key } |->
                               IF k = key THEN asset ELSE it.assets[k] ] ]

NoAssets == [ k \in {} |-> None ]

\* FRDCog.to_pystac_item; created and updated are two later reads of the clock
to_pystac_item_no_thumbnail(self, item_id, thumbnail_path, new_thumbnail, remote, created, updated) ==
    Return(Some(add_asset(
        [ id |-> item_id, geometry |-> self.footprint_4326, bbox |-> bbox_4326(self),
          datetime |-> self.temporal,
          properties |-> [ proj_bbox |-> self.bbox, proj_wkt2 |-> self.projection,
                           created |-> created, updated |-> updated ],
          assets |-> NoAssets ],
        "cog", [ href |-> "grid.tif", media_type |-> "image/tiff; application=geotiff",
                 roles |-> << "data" >> ])))
to_pystac_item(self, item_id, thumbnail_path, new_thumbnail, remote, created, updated) ==
    LET item0 == [ id |-> item_id, geometry |-> self.footprint_4326,
                   bbox |-> bbox_4326(self), datetime |-> self.temporal,
                   properties |-> [ proj_bbox |-> self.bbox, proj_wkt2 |-> self.projection,
                                    created |-> created, updated |-> updated ],
                   assets |-> NoAssets ]
        item1 == add_asset(item0, "cog",
                   [ href |-> "grid.tif", media_type |-> "image/tiff; application=geotiff",
                     roles |-> << "data" >> ])
        thumb == create_thumbnail(self, thumbnail_path, DefaultFactor, remote)
        item2 == add_asset(item1, "thumbnail",
                   [ href |-> "thumbnail.png", media_type |-> "image/png",
                     roles |-> << "thumbnail" >> ])
    IN  IF ~CanTransform(self.projection) THEN Raise     \* line 174, self.bbox_4326
        ELSE IF ~new_thumbnail THEN Return(Some(item1))
        ELSE IF thumb.exc THEN thumb
        ELSE [ thumb EXCEPT !.val = Some(item2) ]

----------------------------------------------------------------------------
(* The caller: one descriptor, and one call at a time *)

\* the uris a caller gives the constructor: s3 uris, and one that is not
\* ("grid.tif", a local path)
Uris == { << "s3", b, k >> : b \in Buckets, k \in Keys } \cup { << "grid.tif" >> }

NoCall == [ op |-> "none", exc |-> FALSE, path |-> None, opened |-> 0, closed |-> 0,
            thumb |-> None, wrote |-> FALSE, new_thumbnail |-> FALSE,
            thumbnail_path |-> None, factor |-> 0, width |-> 0,
            band |-> << >>, nodata |-> None, tag |-> None, lastModified |-> None,
            readable |-> FALSE, repeat |-> FALSE ]

\* what a returned (or raising) call leaves behind
Finish(op, out, more) ==
    /\ call' = [ more EXCEPT !.op = op, !.exc = out.exc, !.path = out.path,
                             !.opened = out.opened, !.closed = out.closed,
                             !.thumb = out.thumb, !.wrote = out.wrote ]
    /\ openHandles' = openHandles + out.opened - out.closed

Init ==
    /\ now = 0
    /\ desc = None
    /\ call = NoCall
    /\ item = None
    /\ dry = None
    /\ lastRead = None
    /\ firstRead = None
    /\ openHandles = 0

\* d = FRDCog(uri, bbox, temporal, resolution, projection, cmap); __init__ does not
\* read its temporal argument
Construct ==
    \E uri \in Uris, bbox \in BBoxes, temporal \in { 0 }, resolution \in Resolutions,
       projection \in Projections, cmap \in CMaps, clock \in now..MaxTime :
        LET out == COG_init(uri, bbox, temporal, resolution, projection, cmap, clock)
        IN  /\ now' = clock
            /\ desc' = IF out.exc THEN desc ELSE out.val
            /\ firstRead' = IF out.exc THEN firstRead ELSE None
            /\ item' = None /\ dry' = None /\ lastRead' = None
            /\ Finish("init", out, NoCall)

\* a remote object that can be read to the end, and the ones a step fails on
SoundObjects ==
    [ openOk : { TRUE }, bounds : BBoxes, resolution : Resolutions,
      crs : { Some(p) : p \in ValidProjections }, tag : { None, Some(0) },
      lastModified : { Some(t) : t \in 0..now } ]
RemoteObjects ==
    SoundObjects \cup
    UNION { { [ o EXCEPT !.openOk = FALSE ], [ o EXCEPT !.crs = None ],
              [ o EXCEPT !.crs = Some("INVALID") ], [ o EXCEPT !.lastModified = None ] } :
            o \in { s \in SoundObjects : /\ s.bounds = << 0, 0, 10, 10 >>
                                          /\ s.crs = Some("EPSG:4326")
                                          /\ s.lastModified = Some(0) } }

\* d = FRDCog.from_s3(bucket, key, cmap)
FromS3 ==
    \E bucket \in Buckets, key \in Keys, cmap \in CMaps, remote \in RemoteObjects,
       clock \in now..MaxTime :
        LET out == from_s3(bucket, key, cmap, remote, clock)
        IN  /\ now' = clock
            /\ desc' = IF out.exc THEN desc ELSE out.val
            /\ firstRead' = IF out.exc THEN firstRead ELSE None
            /\ item' = None /\ dry' = None /\ lastRead' = None
            /\ Finish("from_s3", out,
                      [ NoCall EXCEPT !.tag = remote.tag,
                                      !.lastModified = remote.lastModified,
                                      !.readable =
                                          /\ remote.openOk /\ remote.crs # None
                                          /\ (remote.tag = None => remote.lastModified # None)
                                          /\ CanTransform(remote.crs[1]) ])

\* d.bbox_4326; Transformer.from_crs raises when the projection is not a CRS
ReadBbox4326 ==
    /\ desc # None
    /\ IF CanTransform(desc[1].projection)
       THEN LET got == read_bbox_4326(desc[1])
            IN  /\ lastRead' = Some(got.val)
                /\ firstRead' = IF firstRead = None THEN Some(got.val) ELSE firstRead
                /\ desc' = Some(got.self)
                /\ Finish("bbox_4326", Return(None),
                          [ NoCall EXCEPT !.repeat = firstRead # None ])
       ELSE /\ lastRead' = None
            /\ Finish("bbox_4326", Raise, NoCall)
            /\ UNCHANGED << desc, firstRead >>
    /\ item' = None /\ dry' = None
    /\ UNCHANGED now

RasterBands ==
    [ openOk : { TRUE }, readOk : { TRUE }, band : Bands, nodata : NoDataVals ] \cup
    { [ openOk |-> o, readOk |-> ~o, band |-> [ i \in 1..NumPixels |-> 0 ], nodata |-> Some(0) ] :
      o \in BOOLEAN }

\* d.all_cells_dry
AllCellsDry ==
    /\ desc # None
    /\ \E remote \in RasterBands :
        LET out == all_cells_dry(desc[1], remote)
        IN  /\ dry' = out.val
            /\ item' = None /\ lastRead' = None
            /\ Finish("all_cells_dry", out,
                      [ NoCall EXCEPT !.band = remote.band, !.nodata = remote.nodata,
                                      !.readable = /\ desc[1].uri[1] = "s3"
                                                   /\ remote.openOk /\ remote.readOk ])
    /\ UNCHANGED << now, desc, firstRead >>

\* a raster and the first step of rendering it that fails
Faults == { "none", "open", "read", "reproject", "save" }
Raster(f, w, h, c) ==
    [ openOk |-> f # "open", readOk |-> f # "read", width |-> w, height |-> h,
      count |-> c, reprojectOk |-> f # "reproject", saveOk |-> f # "save" ]
Rasters ==
    { Raster("none", w, h, 1) : w \in Dims, h \in Dims } \cup
    { Raster(f, MaxDim, MaxDim, c) : f \in Faults, c \in 1..2 }

\* d.create_thumbnail(thumbnail_path, factor)
CreateThumbnail ==
    /\ desc # None
    /\ \E thumbnail_path \in ThumbPaths, factor \in Factors, remote \in Rasters :
        LET out == create_thumbnail(desc[1], thumbnail_path, factor, remote)
        IN  /\ item' = None /\ dry' = None /\ lastRead' = None
            /\ Finish("create_thumbnail", out,
                      [ NoCall EXCEPT !.thumbnail_path = Some(thumbnail_path),
                                      !.factor = factor, !.width = remote.width ])
    /\ UNCHANGED << now, desc, firstRead >>

\* d.to_pystac_item(item_id, thumbnail_path, new_thumbnail)
ToPystacItem ==
    /\ desc # None
    /\ \E item_id \in ItemIds, thumbnail_path \in ThumbPaths, new_thumbnail \in BOOLEAN,
          created \in now..MaxTime :
        \E updated \in created..MaxTime,
           remote \in IF new_thumbnail THEN Rasters ELSE { CHOOSE r \in Rasters : TRUE } :
        LET out == to_pystac_item(desc[1], item_id, thumbnail_path, new_thumbnail,
                                  remote, created, updated)
        IN  /\ now' = updated
            /\ item' = IF out.exc THEN None ELSE out.val
            /\ dry' = None /\ lastRead' = None
            /\ Finish("to_pystac_item", out,
                      [ NoCall EXCEPT !.thumbnail_path = Some(thumbnail_path),
                                      !.new_thumbnail = new_thumbnail,
                                      !.factor = IF new_thumbnail THEN DefaultFactor ELSE 0,
                                      !.width = IF new_thumbnail THEN remote.width ELSE 0 ])
    /\ UNCHANGED << desc, firstRead >>

\* d.projection = projection: projection is a plain attribute (line 41), and
\* _footprint_4326 is computed in __init__ only
SetProjection ==
    /\ desc # None
    /\ \E projection \in Projections \ { desc[1].projection } :
           desc' = Some([ desc[1] EXCEPT !.projection = projection ])
    /\ call' = [ NoCall EXCEPT !.op = "set_projection" ]
    /\ item' = None /\ dry' = None /\ lastRead' = None /\ firstRead' = None
    /\ UNCHANGED << now, openHandles >>

\* d.bbox[i] = v, or the same on the list given to the constructor: _bbox is that
\* list (line 38), the bbox property returns it (lines 45-47) and to_pystac_item
\* puts it in the item as proj:bbox (line 185)
MutateBbox ==
    /\ desc # None
    /\ \E bbox \in BBoxes \ { desc[1].bbox } :
           desc' = Some([ desc[1] EXCEPT !.bbox = bbox ])
    /\ call' = [ NoCall EXCEPT !.op = "mutate_bbox" ]
    /\ item' = None /\ dry' = None /\ lastRead' = None /\ firstRead' = None
    /\ UNCHANGED << now, openHandles >>

\* the calls into the classes
Operations ==
    \/ Construct
    \/ FromS3
    \/ ReadBbox4326
    \/ AllCellsDry
    \/ CreateThumbnail
    \/ ToPystacItem

\* the calls, and a caller that also writes the descriptor's attributes
Next ==
    \/ Construct
    \/ FromS3
    \/ ReadBbox4326
    \/ AllCellsDry
    \/ CreateThumbnail
    \/ ToPystacItem
    \/ SetProjection
    \/ MutateBbox

SpecOperations == Init /\ [][Operations]_vars

Spec == Init /\ [][Next]_vars

----------------------------------------------------------------------------
(* Properties *)

\* the rectangle of a geographic bounding box, as a closed GeoJSON ring
Rectangle(b) ==
    << << b[1], b[2] >>, << b[1], b[4] >>, << b[3], b[4] >>, << b[3], b[2] >>,
       << b[1], b[2] >> >>

\* the two corners of a native bounding box carried to geographic coordinates
Reprojected(projection, b) ==
    LET lo == Transform(projection, b[1], b[2])
        hi == Transform(projection, b[3], b[4])
    IN  << lo[1], lo[2], hi[1], hi[2] >>

\* C1: to_pystac_item returns an item; with new_thumbnail false its assets are
\* exactly {cog} and no thumbnail is rendered; with new_thumbnail true they are
\* exactly {cog, thumbnail} and create_thumbnail has been called with the given
\* thumbnail path before the item is returned.
C1_ItemAssets ==
    call.op = "to_pystac_item" =>
        /\ ~call.exc
        /\ item # None
        /\ ~call.new_thumbnail =>
              /\ DOMAIN item[1].assets = { "cog" }
              /\ call.thumb = None
        /\ call.new_thumbnail =>
              /\ DOMAIN item[1].assets = { "cog", "thumbnail" }
              /\ call.thumb = call.thumbnail_path

C1_Witness ==
    /\ call.op = "to_pystac_item"
    /\ call.new_thumbnail
    /\ call.thumbnail_path = Some("b.png")
    /\ call.wrote
    /\ item # None

\* C2: the footprint of every constructed descriptor has exactly 4 vertices (a ring
\* of 5 positions, the last repeating the first), in the order (minx,miny),
\* (minx,maxy), (maxx,maxy), (maxx,miny) of the geographic bounding box.
C2_FootprintVertices ==
    desc # None =>
        LET ring == desc[1].footprint_4326.coordinates[1]
            b == Reprojected(desc[1].projection, desc[1].bbox)
        IN  /\ desc[1].footprint_4326.type = "Polygon"
            /\ Len(desc[1].footprint_4326.coordinates) = 1
            /\ Len(ring) = 5
            /\ ring[5] = ring[1]
            /\ ring[1] = << b[1], b[2] >>
            /\ ring[2] = << b[1], b[4] >>
            /\ ring[3] = << b[3], b[4] >>
            /\ ring[4] = << b[3], b[2] >>

C2_Witness ==
    /\ desc # None
    /\ desc[1].projection = "LOCAL:shear"
    /\ desc[1].bbox = << 0, 0, 1, 2 >>
    /\ desc[1].footprint_4326.coordinates[1][3] = << 6, 2 >>

\* C3: all_cells_dry raises nothing and has three outcomes: True only when every
\* pixel of band 1 equals the declared nodata value, False when a pixel differs,
\* None when the raster could not be obtained or read.
C3_AllCellsDry ==
    call.op = "all_cells_dry" =>
        LET allNodata == \A i \in DOMAIN call.band :
                             call.nodata # None /\ call.band[i] = call.nodata[1]
        IN  /\ ~call.exc
            /\ dry \in { None, Some(TRUE), Some(FALSE) }
            /\ dry = Some(TRUE) => call.readable /\ allNodata
            /\ (call.readable /\ ~allNodata) => dry = Some(FALSE)
            /\ ~call.readable => dry = None

\* C4: from_s3 raises nothing; it returns None when opening the raster, reading its
\* CRS, fetching the last-modified time or constructing the descriptor failed, and
\* a descriptor only when every step succeeded.
C4_FromS3NoRaise ==
    call.op = "from_s3" =>
        /\ ~call.exc
        /\ desc # None <=> call.readable

C4_Witness ==
    /\ call.op = "from_s3"
    /\ call.opened = 1
    /\ ~call.readable
    /\ desc = None

\* C5: a descriptor made by from_s3 from a raster with no timestamp tag carries the
\* object's last-modified time as its capture timestamp.
C5_FallbackTimestamp ==
    ( /\ call.op = "from_s3"
      /\ desc # None
      /\ call.tag = None ) =>
        desc[1].temporal = call.lastModified[1]

\* C6: bbox_4326 returns T(x0,y0) followed by T(x1,y1); the identity transform of
\* [0,0,10,10] gives [0,0,10,10]; the inverse transform of the result gives back
\* the native bounds.
C6_GeographicBoundingBox ==
    (call.op = "bbox_4326" /\ lastRead # None) =>
        LET p == desc[1].projection
            b == desc[1].bbox
            r == lastRead[1]
        IN  /\ Len(r) = 4
            /\ << r[1], r[2] >> = Transform(p, b[1], b[2])
            /\ << r[3], r[4] >> = Transform(p, b[3], b[4])
            /\ (p = "EPSG:4326" /\ b = << 0, 0, 10, 10 >>) => r = << 0, 0, 10, 10 >>
            /\ InverseTransform(p, r[1], r[2]) \o InverseTransform(p, r[3], r[4]) = b

C6_Witness ==
    /\ call.op = "bbox_4326"
    /\ desc[1].projection = "LOCAL:shear"
    /\ desc[1].bbox = << 0, 0, 10, 10 >>
    /\ lastRead = Some(<< 3, -2, 23, 18 >>)

\* C7: in every reachable state, whatever the caller has called, read or assigned,
\* the cached footprint is the rectangle of the native bounding box transformed by
\* the descriptor's current projection, and the geometry of a returned item has the
\* corners of the item's bbox.
C7_FootprintDerived ==
    /\ desc # None =>
          /\ CanTransform(desc[1].projection)
          /\ desc[1].footprint_4326 =
                [ type |-> "Polygon",
                  coordinates |-> << Rectangle(Reprojected(desc[1].projection, desc[1].bbox)) >> ]
    /\ item # None =>
          item[1].geometry.coordinates = << Rectangle(item[1].bbox) >>

\* C8: create_thumbnail raises nothing, whatever the raster, the band count and the
\* factor; to_pystac_item with new_thumbnail true returns an item with the thumbnail
\* asset also when no file was written.
C8_ThumbnailNoRaise ==
    /\ call.op = "create_thumbnail" => ~call.exc
    /\ (call.op = "to_pystac_item" /\ call.new_thumbnail /\ ~call.wrote) =>
          /\ ~call.exc
          /\ item # None
          /\ "thumbnail" \in DOMAIN item[1].assets

C8_Witness ==
    /\ call.op = "to_pystac_item"
    /\ call.new_thumbnail
    /\ call.opened = 1
    /\ ~call.wrote
    /\ item # None

\* C9: every call that opens a raster closes the handle before it returns, on the
\* success path and on the error paths: between calls no handle is open, so no call
\* has a handle of an earlier call to use.
C9_HandlesReleased ==
    /\ openHandles = 0
    /\ call.opened = call.closed
    /\ (call.op \in { "from_s3", "all_cells_dry", "create_thumbnail" } /\ ~call.exc) =>
          call.path # None
    /\ (call.readable \/ call.wrote) => call.opened = 1

C9_Witness ==
    /\ call.op = "all_cells_dry"
    /\ call.opened = 1
    /\ ~call.readable
    /\ dry = None

\* C10: every read of bbox_4326 on a descriptor returns the same four values, also
\* with to_pystac_item, all_cells_dry and create_thumbnail called in between, and a
\* read leaves the descriptor as it was.
C10_BboxDeterministic ==
    /\ [](lastRead # None => lastRead = firstRead)
    /\ [][call'.op = "bbox_4326" => desc' = desc]_vars

C10_Witness ==
    /\ call.op = "bbox_4326"
    /\ call.repeat
    /\ desc[1].projection = "LOCAL:shear"

====
